---- MODULE Spec2Model ----
(***************************************************************************)
(* Model of the witnet-rust centralized-ethereum bridge WitPoller actor    *)
(* (bridges/centralized-ethereum/src/actors/wit_poller.rs) and of the RAD  *)
(* error interception (rad/src/error.rs).                                  *)
(*                                                                         *)
(* The WitPoller future is cut at its await points: every action below is  *)
(* the code that runs between one await and the next.                      *)
(***************************************************************************)
EXTENDS Integers, Sequences, FiniteSets, TLC

\* ------------------------------------------------------------------ bounds
\* Number of records held by the DrDatabase.
MaxRecords == 3
\* Number of scans (calls of check_tally_pending_drs) explored.
MaxScans == 2
\* Last value of the wall clock, in seconds.
MaxNow == 2
\* Stand-in for Epoch::MAX (u32::MAX is beyond TLC's integers): the largest
\* product checkpoints_period * epoch that does not overflow.
MaxElapsed == 4600
\* Stand-in for i64::MAX: the largest timestamp that does not overflow.
MaxTimestamp == 2000000000

\* --------------------------------------------------------- program constants
\* checkpoint_zero_timestamp, Wednesday, 14-Oct-2020, 09:00 UTC
CheckpointZeroTimestamp == 1602666000
\* checkpoints_period
CheckpointsPeriod == 45

\* Option<T>: None is the empty tuple, Some(v) the one-element tuple.
None == << >>
Some(v) == << v >>
IsSome(o) == o # None
Unwrap(o) == o[1]

\* ------------------------------------------------------------------- state
VARIABLES
    db,                          \* DrDatabase: dr_id -> DrInfoBridge
    wit_tally_polling_rate_ms,   \* WitPoller field
    dr_tx_unresolved_timeout_ms, \* WitPoller field, Option<u64>
    now,                         \* wall clock, seconds
    pc,                          \* position of the actor / its spawned future
    scan,                        \* number of futures spawned so far
    in_flight,                   \* number of spawned futures not yet completed
    pending_drs,                 \* records the for loop has not reached yet
    cur,                         \* the tuple bound by the for loop, or None
    held,                        \* tally and block hash kept across getBlock
    current_timestamp,           \* get_timestamp() sampled after the fetch
    dr_reporter_msgs,            \* the accumulator
    timer,                       \* run_later deadline in ms, Option
    reporter_inbox,              \* history: DrReporterMsg sent in this scan
    fetched,                     \* history: pending_drs as fetched in this scan
    calls,                       \* history: Node Client requests of this scan
    writes,                      \* history: SetDrInfoBridge sent in this scan
    disp,                        \* history: what each record's processing met
    started_at,                  \* history: clock at this scan's spawn
    completed_at,                \* history: clock at the last completion, Option
    conv_in, conv_out,           \* input / output of convert_block_epoch_to_timestamp
    icpt_in, icpt_out            \* input / output of RadError::intercept

pollerVars == << db, wit_tally_polling_rate_ms, dr_tx_unresolved_timeout_ms, now,
                 pc, scan, in_flight, pending_drs, cur, held, current_timestamp,
                 dr_reporter_msgs, timer, reporter_inbox, fetched, calls, writes,
                 disp, started_at, completed_at >>
convVars == << conv_in, conv_out >>
icptVars == << icpt_in, icpt_out >>
vars == << pollerVars, convVars, icptVars >>

\* ------------------------------------------ Epoch-timestamp conversion
\* EpochConstants::epoch_timestamp: checkpoint_zero_timestamp +
\* checkpoints_period * epoch in checked arithmetic; None is the Err result.
epoch_timestamp(epoch_constants, epoch) ==
    LET elapsed == epoch_constants.checkpoints_period * epoch
        t == epoch_constants.checkpoint_zero_timestamp + elapsed
    IN  IF elapsed > MaxElapsed \/ t > MaxTimestamp THEN None ELSE Some(t)

unwrap_or(o, default) == IF IsSome(o) THEN Unwrap(o) ELSE default

\* Mutant: the fallback of a failed epoch_timestamp is not 0.
convert_block_epoch_to_timestamp_no_sentinel(epoch_constants, epoch) ==
    LET t == unwrap_or(epoch_timestamp(epoch_constants, epoch),
                       epoch_constants.checkpoint_zero_timestamp)
    IN  [panicked |-> t < 0, value |-> IF t < 0 THEN 0 ELSE t]

\* u64::try_from(epoch_timestamp(epoch).unwrap_or(0)).expect(..): the expect
\* panics when the signed timestamp is negative.
convert_block_epoch_to_timestamp(epoch_constants, epoch) ==
    LET t == unwrap_or(epoch_timestamp(epoch_constants, epoch), 0)
    IN  [panicked |-> t < 0, value |-> IF t < 0 THEN 0 ELSE t]

\* The constants hardcoded in check_tally_pending_drs.
epoch_constants_hardcoded ==
    [checkpoint_zero_timestamp |-> CheckpointZeroTimestamp,
     checkpoints_period |-> CheckpointsPeriod]

\* ------------------------------------------------- RAD error interception
Messages == {"m1", "m2"}
StatusCodes == 0 .. 65535

\* RadError variants that carry no field.
UnitKinds == {"Unknown", "Hash", "NoOperatorInCompoundCall", "NotIntegerOperator",
              "ModeEmpty", "Overflow"}
\* RadError variants that carry fields other than a status code; the fields
\* are abstracted to one detail value.
DetailKinds == {"Decode", "Encode", "JsonParse", "ArrayIndexNotFound",
                "MapKeyNotFound", "ArrayFilterWrongSubscript", "BufferIsNotValue",
                "NotNaturalOperator", "ScriptNotArray", "UnknownOperator",
                "UnsupportedHashFunction", "UnsupportedOperator",
                "UnsupportedReducer", "UnsupportedFilter", "UnsupportedSortOp",
                "UnsupportedOpNonHomogeneous", "ModeTie", "WrongArguments",
                "HttpOther", "ParseFloat", "ParseInt", "ParseBool",
                "MismatchingTypes", "DifferentSizeArrays", "BadSubscriptFormat",
                "Subscript"}

RadError(kind, status_code, message) ==
    [kind |-> kind, status_code |-> status_code, message |-> message]

RadErrors ==
    { RadError("HttpStatus", Some(c), None) : c \in StatusCodes }
    \cup { RadError(k, None, None) : k \in UnitKinds }
    \cup { RadError(k, None, Some(m)) : k \in DetailKinds, m \in Messages }

\* impl Default for RadError
RadErrorDefault == RadError("Unknown", None, None)

\* impl From<reqwest::Error> for RadError
RadErrorFromReqwest(err) ==
    IF IsSome(err.status)
    THEN RadError("HttpStatus", Some(Unwrap(err.status)), None)
    ELSE RadError("HttpOther", None, Some(err.text))

Ok(v) == [tag |-> "Ok", val |-> v]
Err(e) == [tag |-> "Err", val |-> e]

\* RadonError::new(kind, inner, arguments)
RadonErrorNew(kind, inner, arguments) ==
    [kind |-> kind, inner |-> inner, arguments |-> arguments]

\* RadonError::from(inner): the generic wrapper, with the default RadonErrors
\* kind and no arguments.
RadonErrorFrom(error) == RadonErrorNew("Unknown", Some(error), << >>)

\* Mutant: the cast saturates at the largest u8.
as_u8_saturating(n) == IF n > 255 THEN 255 ELSE n

\* `status_code as u8`
as_u8(n) == n % 256

CborU8(n) == [type |-> "U8", value |-> n]

\* Mutant: HttpOther is given a consensus-visible rule as well.
intercept_http_other(input) ==
    IF input.tag = "Err"
    THEN IF input.val.kind \in {"HttpStatus", "HttpOther"}
         THEN Err(RadonErrorNew("HTTPError", Some(input.val), << CborU8(0) >>))
         ELSE Err(RadonErrorFrom(input.val))
    ELSE Ok(input.val)

\* Mutant: the payload of an HttpOther error is built from its message text.
intercept_message_payload(input) ==
    IF input.tag = "Err"
    THEN IF input.val.kind = "HttpStatus"
         THEN Err(RadonErrorNew("HTTPError", Some(input.val),
                                << CborU8(as_u8(Unwrap(input.val.status_code))) >>))
         ELSE IF input.val.kind = "HttpOther"
              THEN Err(RadonErrorNew("HTTPError", Some(input.val),
                                     << [type |-> "Text",
                                         value |-> Unwrap(input.val.message)] >>))
              ELSE Err(RadonErrorFrom(input.val))
    ELSE Ok(input.val)

\* RadError::intercept
intercept(input) ==
    IF input.tag = "Err"
    THEN IF input.val.kind = "HttpStatus"
         THEN Err(RadonErrorNew("HTTPError", Some(input.val),
                                << CborU8(as_u8(Unwrap(input.val.status_code))) >>))
         ELSE Err(RadonErrorFrom(input.val))
    ELSE Ok(input.val)

\* ------------------------------------------------------------ DrDatabase
Ids == 1 .. MaxRecords
\* The creation timestamps alternate between 1 and 0 along the ids.
CreationTime(id) == id % 2

DrBytes(id) == << "dr_bytes", id >>
DrTxHash(id) == << "dr_tx_hash", id >>

\* DrInfoBridge
DrInfoBridge(dr_bytes, dr_state, dr_tx_hash, dr_tx_creation_timestamp) ==
    [dr_bytes |-> dr_bytes, dr_state |-> dr_state, dr_tx_hash |-> dr_tx_hash,
     dr_tx_creation_timestamp |-> dr_tx_creation_timestamp]

\* The records a database can hold for `id` before the poller starts.
InitialInfos(id) ==
    { DrInfoBridge(DrBytes(id), "New", None, None) }
    \cup { DrInfoBridge(DrBytes(id), "Pending", Some(DrTxHash(id)),
                         Some(CreationTime(id))) }

\* One element of the GetAllPendingDrs answer.
PendingDr(id, info) ==
    [dr_id |-> id, dr_bytes |-> info.dr_bytes,
     dr_tx_hash |-> Unwrap(info.dr_tx_hash),
     dr_tx_creation_timestamp |-> Unwrap(info.dr_tx_creation_timestamp)]

RECURSIVE PendingFrom(_, _)
PendingFrom(database, id) ==
    IF id > MaxRecords THEN << >>
    ELSE IF database[id].dr_state = "Pending"
         THEN << PendingDr(id, database[id]) >> \o PendingFrom(database, id + 1)
         ELSE PendingFrom(database, id + 1)

\* Handler of GetAllPendingDrs: the Pending records, by ascending id.
GetAllPendingDrs(database) == PendingFrom(database, 1)

\* Handler of SetDrInfoBridge(dr_id, dr_info): overwrite the record.
SetDrInfoBridge(database, msg) == [database EXCEPT ![msg.dr_id] = msg.dr_info]

\* ------------------------------------------------------------- Node Client
Tallies == {"r1", "r2"}
BlockHashes == {"blk"}
Epochs == {100, 103}

\* The tally the chain holds for the data request of record `id`, once it
\* is resolved: fixed per data request, alternating along the ids.
TallyOf(id) == IF id % 2 = 1 THEN "r1" ELSE "r2"

\* Option<DataRequestInfo> values that deserialize, for the data request of
\* record `id`.
DataRequestInfos(id) ==
    { None }
    \cup { Some([tally |-> t, block_hash_dr_tx |-> b]) :
             t \in { None, Some(TallyOf(id)) },
             b \in { None } \cup { Some(x) : x \in BlockHashes } }

Request(method, params, dr_id) == [method |-> method, params |-> params, dr_id |-> dr_id]

\* ---------------------------------------------------------------- WitPoller
Report(dr_id, timestamp, dr_tx_hash, result) ==
    [dr_id |-> dr_id, timestamp |-> timestamp, dr_tx_hash |-> dr_tx_hash,
     result |-> result]

DrReporterMsg(reports) == [scan |-> scan, reports |-> reports]

\* What the processing of one record met: the outcome of its Node Client
\* calls and, for a tally, the tally's result and the block's epoch.
Disposition(dr, outcome, result, epoch) ==
    [dr_id |-> dr.dr_id, outcome |-> outcome, result |-> result, epoch |-> epoch]

\* Mutant: the comparison with the threshold is not strict.
unresolved_too_long_not_strict(dr_timeout_ms, timestamp, dr_tx_creation_timestamp) ==
    (timestamp - dr_tx_creation_timestamp) >= (dr_timeout_ms \div 1000)

\* (current_timestamp - dr_tx_creation_timestamp) > i64::try_from(dr_timeout_ms / 1000)
unresolved_too_long(dr_timeout_ms, timestamp, dr_tx_creation_timestamp) ==
    (timestamp - dr_tx_creation_timestamp) > (dr_timeout_ms \div 1000)

\* Mutant: the reset keeps the transaction hash.
reset_message_keeps_hash(dr) ==
    [dr_id |-> dr.dr_id,
     dr_info |-> DrInfoBridge(dr.dr_bytes, "New", Some(dr.dr_tx_hash), None)]

\* SetDrInfoBridge(dr_id, DrInfoBridge { dr_bytes, dr_state: New, None, None })
reset_message(dr) ==
    [dr_id |-> dr.dr_id, dr_info |-> DrInfoBridge(dr.dr_bytes, "New", None, None)]

\* Mutant: the Report carries the block's epoch as its timestamp.
make_report_raw_epoch(dr, result, epoch) ==
    Report(dr.dr_id, epoch, dr.dr_tx_hash, result)

\* Report { dr_id, timestamp, dr_tx_hash, result } with the converted timestamp.
make_report(dr, result, epoch) ==
    Report(dr.dr_id,
           convert_block_epoch_to_timestamp(epoch_constants_hardcoded, epoch).value,
           dr.dr_tx_hash, result)

\* End of the for loop (exhausted or left by break): the accumulator is sent
\* to DrReporter and the future awaits the answer.
SendBatch(rest, msgs) ==
    /\ pc' = "await_reporter"
    /\ cur' = None
    /\ pending_drs' = rest
    /\ dr_reporter_msgs' = msgs
    /\ reporter_inbox' = Append(reporter_inbox, DrReporterMsg(msgs))
    /\ UNCHANGED calls

\* Mutant: the call for the record after the next is sent ahead of time.
NextIteration_prefetch(rest, msgs) ==
    IF rest # << >>
    THEN /\ pc' = "await_report"
         /\ cur' = Some(Head(rest))
         /\ pending_drs' = Tail(rest)
         /\ dr_reporter_msgs' = msgs
         /\ calls' =
              LET first == Append(calls, Request("dataRequestReport",
                                                 Head(rest).dr_tx_hash, Head(rest).dr_id))
              IN  IF Len(rest) >= 2 /\ calls = << >>
                  THEN Append(first, Request("dataRequestReport",
                                             rest[2].dr_tx_hash, rest[2].dr_id))
                  ELSE first
         /\ UNCHANGED reporter_inbox
    ELSE SendBatch(rest, msgs)

\* Top of the for loop: bind the next tuple and send dataRequestReport, or
\* leave the loop when the iterator is exhausted.
NextIteration(rest, msgs) ==
    IF rest # << >>
    THEN /\ pc' = "await_report"
         /\ cur' = Some(Head(rest))
         /\ pending_drs' = Tail(rest)
         /\ dr_reporter_msgs' = msgs
         /\ calls' = Append(calls, Request("dataRequestReport", Head(rest).dr_tx_hash,
                                           Head(rest).dr_id))
         /\ UNCHANGED reporter_inbox
    ELSE SendBatch(rest, msgs)

config == << wit_tally_polling_rate_ms, dr_tx_unresolved_timeout_ms >>
pureVars == << convVars, icptVars >>

\* check_tally_pending_drs up to its first await: the future is spawned and
\* GetAllPendingDrs is sent.
check_tally_pending_drs ==
    /\ scan' = scan + 1
    /\ in_flight' = in_flight + 1
    /\ started_at' = now
    /\ pc' = "await_pending"
    /\ timer' = None
    /\ pending_drs' = << >>
    /\ cur' = None
    /\ held' = None
    /\ current_timestamp' = 0
    /\ dr_reporter_msgs' = << >>
    /\ fetched' = << >>
    /\ calls' = << >>
    /\ writes' = << >>
    /\ disp' = << >>
    /\ reporter_inbox' = << >>
    /\ UNCHANGED << db, config, now, completed_at, pureVars >>

\* Actor::started
started ==
    /\ pc = "created"
    /\ check_tally_pending_drs

\* The run_later closure.
TimerFires ==
    /\ pc = "sleeping"
    /\ IsSome(timer)
    /\ now * 1000 >= Unwrap(timer)
    /\ scan < MaxScans
    /\ check_tally_pending_drs

\* The database answers GetAllPendingDrs.
PendingFetched ==
    /\ pc = "await_pending"
    /\ fetched' = GetAllPendingDrs(db)
    /\ current_timestamp' = now
    /\ NextIteration(GetAllPendingDrs(db), << >>)
    /\ UNCHANGED << db, config, now, scan, in_flight, held, timer, writes, disp,
                    started_at, completed_at, pureVars >>

frame == << db, config, now, scan, in_flight, current_timestamp, timer, fetched,
            started_at, completed_at, pureVars >>

\* Mutant: a failed dataRequestReport send skips the record and goes on.
DrReportTransportError_continue ==
    /\ pc = "await_report"
    /\ disp' = Append(disp, Disposition(Unwrap(cur), "report_transport", None, None))
    /\ NextIteration(pending_drs, dr_reporter_msgs)
    /\ UNCHANGED << frame, held, writes >>

\* witnet_client.send(req).await is Err (mailbox or timeout): break.
DrReportTransportError ==
    /\ pc = "await_report"
    /\ disp' = Append(disp, Disposition(Unwrap(cur), "report_transport", None, None))
    /\ SendBatch(pending_drs, dr_reporter_msgs)
    /\ UNCHANGED << frame, held, writes >>

\* Mutant: the reset branch also pushes a Report for the record.
DrReportRpcError_also_reports ==
    /\ pc = "await_report"
    /\ disp' = Append(disp, Disposition(Unwrap(cur), "report_rpc_error", None, None))
    /\ IF /\ IsSome(dr_tx_unresolved_timeout_ms)
          /\ unresolved_too_long(Unwrap(dr_tx_unresolved_timeout_ms), current_timestamp,
                                 Unwrap(cur).dr_tx_creation_timestamp)
       THEN /\ writes' = Append(writes, reset_message(Unwrap(cur)))
            /\ pc' = "await_store"
            /\ dr_reporter_msgs' =
                 Append(dr_reporter_msgs, make_report(Unwrap(cur), "r2", 0))
            /\ UNCHANGED << cur, pending_drs, calls, reporter_inbox >>
       ELSE /\ NextIteration(pending_drs, dr_reporter_msgs)
            /\ UNCHANGED writes
    /\ UNCHANGED << frame, held >>

\* Mutant: a JSON-RPC error on dataRequestReport leaves the loop.
DrReportRpcError_breaks ==
    /\ pc = "await_report"
    /\ disp' = Append(disp, Disposition(Unwrap(cur), "report_rpc_error", None, None))
    /\ SendBatch(pending_drs, dr_reporter_msgs)
    /\ UNCHANGED << frame, held, writes >>

\* Mutant: the age of the record is measured with the clock read when the
\* record is handled.
DrReportRpcError_clock_per_record ==
    /\ pc = "await_report"
    /\ disp' = Append(disp, Disposition(Unwrap(cur), "report_rpc_error", None, None))
    /\ IF /\ IsSome(dr_tx_unresolved_timeout_ms)
          /\ unresolved_too_long(Unwrap(dr_tx_unresolved_timeout_ms), now,
                                 Unwrap(cur).dr_tx_creation_timestamp)
       THEN /\ writes' = Append(writes, reset_message(Unwrap(cur)))
            /\ pc' = "await_store"
            /\ UNCHANGED << cur, pending_drs, dr_reporter_msgs, calls, reporter_inbox >>
       ELSE /\ NextIteration(pending_drs, dr_reporter_msgs)
            /\ UNCHANGED writes
    /\ UNCHANGED << frame, held >>

\* The node answers dataRequestReport with a JSON-RPC error: the record is
\* reset to New when it has been unresolved for too long, and the loop
\* continues.
DrReportRpcError ==
    /\ pc = "await_report"
    /\ disp' = Append(disp, Disposition(Unwrap(cur), "report_rpc_error", None, None))
    /\ IF /\ IsSome(dr_tx_unresolved_timeout_ms)
          /\ unresolved_too_long(Unwrap(dr_tx_unresolved_timeout_ms), current_timestamp,
                                 Unwrap(cur).dr_tx_creation_timestamp)
       THEN /\ writes' = Append(writes, reset_message(Unwrap(cur)))
            /\ pc' = "await_store"
            /\ UNCHANGED << cur, pending_drs, dr_reporter_msgs, calls, reporter_inbox >>
       ELSE /\ NextIteration(pending_drs, dr_reporter_msgs)
            /\ UNCHANGED writes
    /\ UNCHANGED << frame, held >>

\* The database answers SetDrInfoBridge: continue.
StoreAck ==
    /\ pc = "await_store"
    /\ db' = SetDrInfoBridge(db, writes[Len(writes)])
    /\ NextIteration(pending_drs, dr_reporter_msgs)
    /\ UNCHANGED << config, now, scan, in_flight, current_timestamp, timer, fetched,
                    started_at, completed_at, pureVars, held, writes, disp >>

\* The dataRequestReport value does not deserialize: continue.
DrReportMalformed ==
    /\ pc = "await_report"
    /\ disp' = Append(disp, Disposition(Unwrap(cur), "report_malformed", None, None))
    /\ NextIteration(pending_drs, dr_reporter_msgs)
    /\ UNCHANGED << frame, held, writes >>

\* Mutant: a tally alone is enough to ask for the block.
DrReportValue_tally_only ==
    /\ pc = "await_report"
    /\ \E info \in DataRequestInfos(Unwrap(cur).dr_id) :
         IF /\ IsSome(info)
            /\ IsSome(Unwrap(info).tally)
         THEN /\ held' = Some([result |-> Unwrap(Unwrap(info).tally),
                               dr_block_hash |-> Unwrap(info).block_hash_dr_tx])
              /\ calls' = Append(calls, Request("getBlock",
                                                Unwrap(info).block_hash_dr_tx,
                                                Unwrap(cur).dr_id))
              /\ pc' = "await_block"
              /\ UNCHANGED << cur, pending_drs, dr_reporter_msgs, reporter_inbox, disp >>
         ELSE /\ disp' = Append(disp, Disposition(Unwrap(cur), "unresolved", None, None))
              /\ NextIteration(pending_drs, dr_reporter_msgs)
              /\ UNCHANGED held
    /\ UNCHANGED << frame, writes >>

\* The value deserializes to Option<DataRequestInfo>.
DrReportValue ==
    /\ pc = "await_report"
    /\ \E info \in DataRequestInfos(Unwrap(cur).dr_id) :
         IF /\ IsSome(info)
            /\ IsSome(Unwrap(info).tally)
            /\ IsSome(Unwrap(info).block_hash_dr_tx)
         THEN \* a tally and the block of the data request: send getBlock
              /\ held' = Some([result |-> Unwrap(Unwrap(info).tally),
                               dr_block_hash |-> Unwrap(Unwrap(info).block_hash_dr_tx)])
              /\ calls' = Append(calls, Request("getBlock",
                                                Unwrap(Unwrap(info).block_hash_dr_tx),
                                                Unwrap(cur).dr_id))
              /\ pc' = "await_block"
              /\ UNCHANGED << cur, pending_drs, dr_reporter_msgs, reporter_inbox, disp >>
         ELSE \* Ok(..): not resolved yet, continue
              /\ disp' = Append(disp, Disposition(Unwrap(cur), "unresolved", None, None))
              /\ NextIteration(pending_drs, dr_reporter_msgs)
              /\ UNCHANGED held
    /\ UNCHANGED << frame, writes >>

\* witnet_client.send(getBlock).await is Err: break.
BlockTransportError ==
    /\ pc = "await_block"
    /\ disp' = Append(disp, Disposition(Unwrap(cur), "block_transport", None, None))
    /\ held' = None
    /\ SendBatch(pending_drs, dr_reporter_msgs)
    /\ UNCHANGED << frame, writes >>

\* Mutant: a JSON-RPC error on getBlock applies the timeout reset as well.
BlockRpcError_resets ==
    /\ pc = "await_block"
    /\ disp' = Append(disp, Disposition(Unwrap(cur), "block_rpc_error", None, None))
    /\ held' = None
    /\ IF /\ IsSome(dr_tx_unresolved_timeout_ms)
          /\ unresolved_too_long(Unwrap(dr_tx_unresolved_timeout_ms), current_timestamp,
                                 Unwrap(cur).dr_tx_creation_timestamp)
       THEN /\ writes' = Append(writes, reset_message(Unwrap(cur)))
            /\ pc' = "await_store"
            /\ UNCHANGED << cur, pending_drs, dr_reporter_msgs, calls, reporter_inbox >>
       ELSE /\ NextIteration(pending_drs, dr_reporter_msgs)
            /\ UNCHANGED writes
    /\ UNCHANGED frame

\* The node answers getBlock with a JSON-RPC error: continue.
BlockRpcError ==
    /\ pc = "await_block"
    /\ disp' = Append(disp, Disposition(Unwrap(cur), "block_rpc_error", None, None))
    /\ held' = None
    /\ NextIteration(pending_drs, dr_reporter_msgs)
    /\ UNCHANGED << frame, writes >>

\* The getBlock value does not deserialize as a Block: the expect panics and
\* the future is never completed.
BlockMalformed ==
    /\ pc = "await_block"
    /\ disp' = Append(disp, Disposition(Unwrap(cur), "block_malformed", None, None))
    /\ pc' = "panicked"
    /\ UNCHANGED << frame, held, writes, cur, pending_drs, dr_reporter_msgs, calls,
                    reporter_inbox >>

\* Mutant: the record of a pushed Report is marked Finished in the database.
BlockOk_marks_finished ==
    /\ pc = "await_block"
    /\ \E epoch \in Epochs :
         /\ disp' = Append(disp, Disposition(Unwrap(cur), "tally", Some(Unwrap(held).result), Some(epoch)))
         /\ held' = None
         /\ NextIteration(pending_drs,
                          Append(dr_reporter_msgs,
                                 make_report(Unwrap(cur), Unwrap(held).result, epoch)))
    /\ db' = [db EXCEPT ![Unwrap(cur).dr_id].dr_state = "Finished"]
    /\ UNCHANGED << config, now, scan, in_flight, current_timestamp, timer, fetched,
                    started_at, completed_at, pureVars, writes >>

\* Mutant: the Report is put at the front of the accumulator.
BlockOk_pushes_front ==
    /\ pc = "await_block"
    /\ \E epoch \in Epochs :
         /\ disp' = Append(disp, Disposition(Unwrap(cur), "tally", Some(Unwrap(held).result), Some(epoch)))
         /\ held' = None
         /\ NextIteration(pending_drs,
                          << make_report(Unwrap(cur), Unwrap(held).result, epoch) >>
                             \o dr_reporter_msgs)
    /\ UNCHANGED << frame, writes >>

\* getBlock returns a block of checkpoint `epoch`: the Report is pushed.
BlockOk ==
    /\ pc = "await_block"
    /\ \E epoch \in Epochs :
         IF convert_block_epoch_to_timestamp(epoch_constants_hardcoded, epoch).panicked
         THEN /\ pc' = "panicked"
              /\ UNCHANGED << disp, held, cur, pending_drs, dr_reporter_msgs, calls,
                              reporter_inbox >>
         ELSE /\ disp' = Append(disp, Disposition(Unwrap(cur), "tally", Some(Unwrap(held).result), Some(epoch)))
              /\ held' = None
              /\ NextIteration(pending_drs,
                               Append(dr_reporter_msgs,
                                      make_report(Unwrap(cur), Unwrap(held).result, epoch)))
    /\ UNCHANGED << frame, writes >>

\* Mutant: the next call is scheduled at a fixed rate from the scan's start.
ReporterAck_fixed_rate ==
    /\ pc = "await_reporter"
    /\ in_flight' = in_flight - 1
    /\ completed_at' = Some(now)
    /\ timer' = Some(started_at * 1000 + wit_tally_polling_rate_ms)
    /\ pc' = "sleeping"
    /\ UNCHANGED << db, config, now, scan, pending_drs, cur, held, current_timestamp,
                    dr_reporter_msgs, reporter_inbox, fetched, calls, writes, disp,
                    started_at, pureVars >>

\* DrReporter answers: the future completes and its continuation arms
\* run_later(period).
ReporterAck ==
    /\ pc = "await_reporter"
    /\ in_flight' = in_flight - 1
    /\ completed_at' = Some(now)
    /\ timer' = Some(now * 1000 + wit_tally_polling_rate_ms)
    /\ pc' = "sleeping"
    /\ UNCHANGED << db, config, now, scan, pending_drs, cur, held, current_timestamp,
                    dr_reporter_msgs, reporter_inbox, fetched, calls, writes, disp,
                    started_at, pureVars >>

\* Time passes. The clock is stepped at every await point of the future and
\* while the actor sleeps, so the clock read by get_timestamp on line 70 and
\* the clock at the time a record is handled can differ.
Tick ==
    /\ now < MaxNow
    /\ pc # "panicked"
    /\ now' = now + 1
    /\ UNCHANGED << db, config, pc, scan, in_flight, pending_drs, cur, held,
                    current_timestamp, dr_reporter_msgs, timer, reporter_inbox,
                    fetched, calls, writes, disp, started_at, completed_at, pureVars >>

PureIdle ==
    /\ conv_in = None /\ conv_out = None
    /\ icpt_in = None /\ icpt_out = None

\* WitPoller::from_config and the databases it can meet at start.
PollerInit ==
    /\ db \in [Ids -> UNION { InitialInfos(id) : id \in Ids }]
    /\ \A id \in Ids : db[id] \in InitialInfos(id)
    /\ wit_tally_polling_rate_ms \in {1000}
    /\ dr_tx_unresolved_timeout_ms \in {None, Some(999), Some(1000), Some(1999)}
    /\ now = 1
    /\ pc = "created"
    /\ scan = 0
    /\ in_flight = 0
    /\ pending_drs = << >>
    /\ cur = None
    /\ held = None
    /\ current_timestamp = 0
    /\ dr_reporter_msgs = << >>
    /\ timer = None
    /\ reporter_inbox = << >>
    /\ fetched = << >>
    /\ calls = << >>
    /\ writes = << >>
    /\ disp = << >>
    /\ started_at = 0
    /\ completed_at = None

Init == PollerInit /\ PureIdle

Next ==
    \/ started
    \/ TimerFires
    \/ PendingFetched
    \/ DrReportTransportError
    \/ DrReportRpcError
    \/ StoreAck
    \/ DrReportMalformed
    \/ DrReportValue
    \/ BlockTransportError
    \/ BlockRpcError
    \/ BlockMalformed
    \/ BlockOk
    \/ ReporterAck
    \/ Tick

Spec == Init /\ [][Next]_vars

\* ------------------------------------------- the pure functions on their own
\* The poller parked in one initial state while a pure function is exercised.
PollerParked ==
    /\ PollerInit
    /\ \A id \in Ids : db[id].dr_state = "New"
    /\ dr_tx_unresolved_timeout_ms = None

ConvZeros == {-100, -45, 0, CheckpointZeroTimestamp, MaxTimestamp - 10}
ConvPeriods == {0, 1, CheckpointsPeriod, 1000}
ConvEpochs == {0, 1, 2, 100, 103, 5000}

InitConvert ==
    /\ PollerParked
    /\ icpt_in = None /\ icpt_out = None
    /\ conv_out = None
    /\ conv_in \in { Some([epoch_constants |-> [checkpoint_zero_timestamp |-> z,
                                                 checkpoints_period |-> p],
                           epoch |-> e]) :
                       z \in ConvZeros, p \in ConvPeriods, e \in ConvEpochs }

Convert ==
    /\ conv_out = None
    /\ conv_out' = Some(convert_block_epoch_to_timestamp(Unwrap(conv_in).epoch_constants,
                                                         Unwrap(conv_in).epoch))
    /\ UNCHANGED << pollerVars, conv_in, icptVars >>

SpecConvert == InitConvert /\ [][Convert]_vars

\* reqwest::Error: an optional status and a display text.
ReqwestErrors ==
    { [status |-> st, text |-> "connection refused"] :
        st \in { None, Some(404), Some(500) } }

InterceptInputs ==
    { Ok(v) : v \in {"v1", "v2"} }
    \cup { Err(e) : e \in RadErrors }
    \cup { [tag |-> "Reqwest", val |-> r] : r \in ReqwestErrors }

InitIntercept ==
    /\ PollerParked
    /\ conv_in = None /\ conv_out = None
    /\ icpt_out = None
    /\ icpt_in \in { Some(i) : i \in InterceptInputs }

\* `?` on a reqwest::Error converts it with From<reqwest::Error>.
FromReqwest ==
    /\ Unwrap(icpt_in).tag = "Reqwest"
    /\ icpt_in' = Some(Err(RadErrorFromReqwest(Unwrap(icpt_in).val)))
    /\ UNCHANGED << pollerVars, convVars, icpt_out >>

Intercept ==
    /\ icpt_out = None
    /\ Unwrap(icpt_in).tag \in {"Ok", "Err"}
    /\ icpt_out' = Some(intercept(Unwrap(icpt_in)))
    /\ UNCHANGED << pollerVars, convVars, icpt_in >>

NextIntercept ==
    \/ FromReqwest
    \/ Intercept

SpecIntercept == InitIntercept /\ [][NextIntercept]_vars

\* ================================================================ claims
Range(seq) == { seq[i] : i \in DOMAIN seq }
Count(seq, P(_)) == Cardinality({ i \in DOMAIN seq : P(seq[i]) })
ReportsFor(id) == LET Is(r) == r.dr_id = id IN Count(dr_reporter_msgs, Is)
ResetsFor(id) == LET Is(w) == w.dr_id = id IN Count(writes, Is)
FetchedIds(from, to) == { fetched[i].dr_id : i \in from .. to }
Aborted ==
    /\ disp # << >>
    /\ disp[Len(disp)].outcome \in {"report_transport", "block_transport"}
AgeMs(i) == (current_timestamp - fetched[i].dr_tx_creation_timestamp) * 1000
TimestampOverflows(epoch) ==
    \/ CheckpointsPeriod * epoch > MaxElapsed
    \/ CheckpointZeroTimestamp + CheckpointsPeriod * epoch > MaxTimestamp

\* C1: at most one scan is in flight at any moment, and a scan other than the
\* first starts only after the previous scan's future (Reporter send
\* included) has completed and the poll interval has elapsed since that
\* completion.
ScansNeverOverlap ==
    /\ in_flight <= 1
    /\ pc \in {"await_pending", "await_report", "await_store", "await_block",
               "await_reporter"} => in_flight = 1
    /\ (in_flight = 1 /\ scan >= 2) =>
          /\ IsSome(completed_at)
          /\ started_at * 1000 >= Unwrap(completed_at) * 1000 + wit_tally_polling_rate_ms
          /\ started_at <= now

\* C1 witness: the second scan has issued its first Node Client call.
SecondScanCalls ==
    /\ scan = 2
    /\ in_flight = 1
    /\ pc = "await_report"
    /\ Len(calls) = 1
    /\ IsSome(completed_at)

\* C2: every scan sends exactly one batch: none before the loop is left, one
\* once it is left, and no scan ends without one.
OneBatchPerScan ==
    /\ Len(reporter_inbox) <= 1
    /\ pc \in {"await_pending", "await_report", "await_store", "await_block"} =>
          reporter_inbox = << >>
    /\ pc \in {"await_reporter", "sleeping"} => Len(reporter_inbox) = 1
    /\ pc = "panicked" => Len(reporter_inbox) = 1

\* C3: after a transport failure on record k no call, Report or write exists
\* for records k+1..n, no Report or write exists for record k, and the batch
\* sent holds every Report accumulated for records 1..k-1.
TransportFailureAbortsScan ==
    Aborted =>
        LET k == Len(disp) IN
        /\ disp[k].dr_id = fetched[k].dr_id
        /\ \A c \in Range(calls) : c.dr_id \in FetchedIds(1, k)
        /\ \A r \in Range(dr_reporter_msgs) : r.dr_id \in FetchedIds(1, k - 1)
        /\ \A w \in Range(writes) : w.dr_id \in FetchedIds(1, k - 1)
        /\ pc \in {"await_reporter", "sleeping"}
        /\ Len(reporter_inbox) = 1
        /\ reporter_inbox[1].reports = dr_reporter_msgs
        /\ \A i \in 1 .. k - 1 :
              disp[i].outcome = "tally" =>
                 \E r \in Range(reporter_inbox[1].reports) :
                    /\ r.dr_id = fetched[i].dr_id
                    /\ r.result = Unwrap(disp[i].result)

\* C3 witness: the second record's call failed in transport after the first
\* record produced a Report, and a third record was left untouched.
AbortAfterAReport ==
    /\ Aborted
    /\ Len(disp) = 2
    /\ Len(fetched) = 3
    /\ disp[1].outcome = "tally"
    /\ Len(reporter_inbox) = 1
    /\ Len(reporter_inbox[1].reports) = 1

\* C4: in a scan every fetched record gets at most one Report or reset, never
\* both and never two of a kind; a record with neither is left unchanged.
AtMostOneDisposition ==
    /\ \A i \in DOMAIN fetched :
          ReportsFor(fetched[i].dr_id) + ResetsFor(fetched[i].dr_id) <= 1
    /\ \A i \in DOMAIN disp :
          /\ ReportsFor(disp[i].dr_id) = 1 <=> disp[i].outcome = "tally"
          /\ ResetsFor(disp[i].dr_id) = 0 => db[disp[i].dr_id].dr_state = "Pending"
    /\ \A r \in Range(dr_reporter_msgs) : r.dr_id \in FetchedIds(1, Len(fetched))
    /\ \A w \in Range(writes) : w.dr_id \in FetchedIds(1, Len(fetched))

\* C4 witness: one scan produced a Report for one record and reset another.
ReportAndResetInOneScan ==
    /\ dr_reporter_msgs # << >>
    /\ writes # << >>
    /\ pc = "sleeping"

\* C5 as stated: a reset fires iff a threshold is configured, the record
\* yields an application-level error (of either call) and its age strictly
\* exceeds the threshold.
ResetIffAnyRpcErrorAndTooOld ==
    \A i \in DOMAIN disp :
        ResetsFor(disp[i].dr_id) > 0 <=>
            /\ IsSome(dr_tx_unresolved_timeout_ms)
            /\ disp[i].outcome \in {"report_rpc_error", "block_rpc_error"}
            /\ AgeMs(i) > Unwrap(dr_tx_unresolved_timeout_ms)

\* C5 amended: a reset fires iff a threshold is configured, the record's
\* dataRequestReport call yields an application-level error and the record's
\* age strictly exceeds the threshold.
ResetIffReportRpcErrorAndTooOld ==
    \A i \in DOMAIN disp :
        ResetsFor(disp[i].dr_id) > 0 <=>
            /\ IsSome(dr_tx_unresolved_timeout_ms)
            /\ disp[i].outcome = "report_rpc_error"
            /\ AgeMs(i) > Unwrap(dr_tx_unresolved_timeout_ms)

\* C5 witness: a reset was issued under a threshold of 1999 ms, and in the
\* same scan a record that errored with an age within the threshold was not
\* reset.
ResetUnderThreshold ==
    /\ dr_tx_unresolved_timeout_ms = Some(1999)
    /\ Len(writes) = 1
    /\ \E i \in DOMAIN disp :
          /\ disp[i].outcome = "report_rpc_error"
          /\ ResetsFor(disp[i].dr_id) = 0

\* C6: every reset names the record whose dataRequestReport call errored,
\* sets state New, clears hash and timestamp together and passes the payload
\* through; no record ever has exactly one of hash and timestamp.
ResetWriteShape ==
    /\ \A w \in Range(writes) :
          \E i \in DOMAIN disp :
             /\ disp[i].dr_id = w.dr_id
             /\ fetched[i].dr_id = w.dr_id
             /\ disp[i].outcome = "report_rpc_error"
             /\ w.dr_info = DrInfoBridge(fetched[i].dr_bytes, "New", None, None)
    /\ \A id \in Ids :
          /\ IsSome(db[id].dr_tx_hash) <=> IsSome(db[id].dr_tx_creation_timestamp)
          /\ db[id].dr_bytes = DrBytes(id)

\* C6 witness: the database has applied a reset of a fetched record.
ResetApplied ==
    /\ writes # << >>
    /\ pc # "await_store"
    /\ db[writes[1].dr_id].dr_state = "New"
    /\ db[writes[1].dr_id].dr_tx_hash = None

\* C7 as stated: a record with a tally whose block has epoch e has a Report
\* with its id, its hash, the tally's result and timestamp
\* 1,602,666,000 + e * 45.
ReportTimestampFormula ==
    \A i \in DOMAIN disp :
        disp[i].outcome = "tally" =>
            LET r == Report(fetched[i].dr_id,
                            1602666000 + Unwrap(disp[i].epoch) * 45,
                            fetched[i].dr_tx_hash, Unwrap(disp[i].result))
            IN  /\ r \in Range(dr_reporter_msgs)
                /\ reporter_inbox # << >> => r \in Range(reporter_inbox[1].reports)

\* C7 amended: the Report's timestamp is 1,602,666,000 + e * 45 when that
\* computation does not overflow, and 0 when it does.
ReportTimestampFormulaOrZero ==
    \A i \in DOMAIN disp :
        disp[i].outcome = "tally" =>
            LET e == Unwrap(disp[i].epoch)
                r == Report(fetched[i].dr_id,
                            IF TimestampOverflows(e) THEN 0 ELSE 1602666000 + e * 45,
                            fetched[i].dr_tx_hash, Unwrap(disp[i].result))
            IN  /\ r \in Range(dr_reporter_msgs)
                /\ reporter_inbox # << >> => r \in Range(reporter_inbox[1].reports)

\* C7 witness: a batch was sent with a Report of epoch 100, timestamp
\* 1,602,670,500.
BatchWithEpoch100 ==
    /\ reporter_inbox # << >>
    /\ \E r \in Range(reporter_inbox[1].reports) :
          /\ r.timestamp = 1602670500
          /\ r.result = "r2"
          /\ r.dr_tx_hash = DrTxHash(r.dr_id)

HttpStatusPayloadCarriesCode ==
    (IsSome(icpt_out) /\ Unwrap(icpt_in).tag = "Err"
        /\ Unwrap(icpt_in).val.kind = "HttpStatus") =>
        /\ Unwrap(icpt_out).tag = "Err"
        /\ Unwrap(icpt_out).val.kind = "HTTPError"
        /\ Len(Unwrap(icpt_out).val.arguments) = 1
        /\ Unwrap(icpt_out).val.arguments[1].value =
             Unwrap(Unwrap(icpt_in).val.status_code)

\* C10: intercept always returns; every error other than HttpStatus becomes
\* the generic wrapper holding the original error and no arguments, and an Ok
\* input comes back as the same Ok.
OnlyHttpStatusIsConsensusVisible ==
    IsSome(icpt_out) =>
        LET in == Unwrap(icpt_in)
            out == Unwrap(icpt_out)
        IN  /\ out.tag \in {"Ok", "Err"}
            /\ in.tag = "Ok" => (out.tag = "Ok" /\ out.val = in.val)
            /\ (in.tag = "Err" /\ in.val.kind # "HttpStatus") =>
                  /\ out.tag = "Err"
                  /\ out.val.kind # "HTTPError"
                  /\ out.val.arguments = << >>
                  /\ out.val.inner = Some(in.val)
            /\ (in.tag = "Err" /\ in.val.kind = "HttpStatus") =>
                  (out.tag = "Err" /\ out.val.kind = "HTTPError")

\* C10 witness: an HttpOther built from a reqwest error without a status was
\* wrapped.
ReqwestTextWrapped ==
    /\ IsSome(icpt_out)
    /\ Unwrap(icpt_in).tag = "Err"
    /\ Unwrap(icpt_in).val.kind = "HttpOther"
    /\ Unwrap(icpt_in).val.message = Some("connection refused")
    /\ Unwrap(icpt_out).val.inner = Some(Unwrap(icpt_in).val)

\* The part of an intercepted result that is serialized into consensus: the
\* RadonErrors kind and the arguments; the inner error is diagnostic only.
ConsensusPayload(out) ==
    IF out.tag = "Err"
    THEN Some([kind |-> out.val.kind, arguments |-> out.val.arguments])
    ELSE None

FreeTexts == Messages \cup {"connection refused", ""}

\* The errors that agree with `e` on every typed field and differ at most in
\* the free-form message.
FreeTextVariants(e) ==
    IF IsSome(e.message)
    THEN { [e EXCEPT !.message = Some(m)] : m \in FreeTexts }
    ELSE { e }

\* C11: two errors that agree on their typed fields and differ only in the
\* free-form message are intercepted to the same consensus-visible payload:
\* whatever error was intercepted, every free-text variant of it yields the
\* kind and arguments that were produced.
ClassificationIgnoresFreeText ==
    (IsSome(icpt_out) /\ Unwrap(icpt_in).tag = "Err") =>
        \A e \in FreeTextVariants(Unwrap(icpt_in).val) :
            ConsensusPayload(intercept(Err(e))) = ConsensusPayload(Unwrap(icpt_out))

\* C11 witness: an HttpOther with message "m1" was intercepted and the text
\* survives in the diagnostic inner error only.
FreeTextOnlyInDiagnostic ==
    /\ IsSome(icpt_out)
    /\ Unwrap(icpt_in).tag = "Err"
    /\ Unwrap(icpt_in).val.kind = "HttpOther"
    /\ Unwrap(icpt_in).val.message = Some("m1")
    /\ Unwrap(Unwrap(icpt_out).val.inner).message = Some("m1")
    /\ Unwrap(icpt_out).val.arguments = << >>

\* The scan went on after the record at position i of the fetch: the call
\* for the next record was issued, or the batch was sent after the last one.
ContinuedAfter(i) ==
    IF i < Len(fetched)
    THEN \E c \in DOMAIN calls :
            /\ calls[c].method = "dataRequestReport"
            /\ calls[c].dr_id = fetched[i + 1].dr_id
    ELSE Len(reporter_inbox) = 1

\* C12: a response that does not decode (the dataRequestReport value or the
\* getBlock block) skips that one record only: no Report and no write for
\* it, the process lives, and the scan goes on to the next record or to its
\* Reporter send.
MalformedResponseSkipsRecord ==
    \A i \in DOMAIN disp :
        disp[i].outcome \in {"report_malformed", "block_malformed"} =>
            /\ ReportsFor(disp[i].dr_id) = 0
            /\ ResetsFor(disp[i].dr_id) = 0
            /\ pc # "panicked"
            /\ ContinuedAfter(i)

\* C13: the loop never stops. Whatever the records of a scan met, the
\* process is alive and either a scan is in progress or the next one is
\* armed, one poll interval after the completion of the last (no backoff).
LoopNeverStops ==
    /\ pc # "panicked"
    /\ pc \notin {"created", "sleeping"} => (in_flight = 1 /\ timer = None)
    /\ pc = "sleeping" =>
          /\ in_flight = 0
          /\ IsSome(completed_at)
          /\ timer = Some(Unwrap(completed_at) * 1000 + wit_tally_polling_rate_ms)

\* The record of the database as GetAllPendingDrs returned it at position i.
AsFetched(i) ==
    DrInfoBridge(fetched[i].dr_bytes, "Pending", Some(fetched[i].dr_tx_hash),
                 Some(fetched[i].dr_tx_creation_timestamp))

\* C14: the only write of the poller is the reset to New. A fetched record
\* without a reset in this scan (reported, unresolved, malformed, errored
\* within the threshold, or not reached) is in the database exactly as it was
\* fetched; no record appears, disappears or takes any other shape; and every
\* record that is Pending in the database, the ones earlier scans left
\* untouched included, is among the records the running scan fetched.
OnlyResetIsWritten ==
    /\ \A w \in DOMAIN writes :
          /\ writes[w].dr_info.dr_state = "New"
          /\ writes[w].dr_id \in FetchedIds(1, Len(fetched))
    /\ \A i \in DOMAIN fetched :
          ResetsFor(fetched[i].dr_id) = 0 => db[fetched[i].dr_id] = AsFetched(i)
    /\ \A id \in Ids :
          /\ db[id].dr_bytes = DrBytes(id)
          /\ db[id].dr_state \in {"New", "Pending"}
          /\ (pc \notin {"created", "await_pending"} /\ db[id].dr_state = "Pending")
                => id \in FetchedIds(1, Len(fetched))

\* C14 witness: the second scan fetched two or more records, which the first
\* scan had fetched and left unwritten, and has sent its first call.
SecondScanFetchesAgain ==
    /\ scan = 2
    /\ pc = "await_report"
    /\ Len(fetched) >= 2
    /\ Len(calls) = 1
    /\ calls[1].dr_id = fetched[1].dr_id

GetBlockCallsFor(id) ==
    { c \in DOMAIN calls : calls[c].method = "getBlock" /\ calls[c].dr_id = id }

\* C15: a record whose dataRequestReport value lacks the tally or the block
\* reference is unresolved. getBlock is only ever called with a block
\* reference in hand and a tally held; an unresolved record gets no getBlock
\* call, no Report and no write, stays as fetched, and the scan goes on.
UnresolvedIsSkipped ==
    /\ \A c \in DOMAIN calls :
          calls[c].method = "getBlock" =>
             /\ calls[c].params \in BlockHashes
             /\ \/ /\ c = Len(calls)
                   /\ pc \in {"await_block", "panicked"}
                   /\ IsSome(held)
                   /\ Unwrap(held).result \in Tallies
                \/ \E i \in DOMAIN disp :
                      /\ disp[i].dr_id = calls[c].dr_id
                      /\ disp[i].outcome \in {"tally", "block_rpc_error",
                                              "block_transport"}
    /\ \A i \in DOMAIN disp :
          disp[i].outcome = "unresolved" =>
             /\ GetBlockCallsFor(disp[i].dr_id) = {}
             /\ ReportsFor(disp[i].dr_id) = 0
             /\ ResetsFor(disp[i].dr_id) = 0
             /\ db[disp[i].dr_id] = AsFetched(i)
             /\ ContinuedAfter(i)

\* C15 witness: an unresolved record was skipped and the record after it was
\* reported in the same scan.
UnresolvedThenReported ==
    \E i \in DOMAIN disp :
        /\ disp[i].outcome = "unresolved"
        /\ i < Len(disp)
        /\ disp[i + 1].outcome = "tally"
        /\ ReportsFor(disp[i + 1].dr_id) = 1
        /\ Len(dr_reporter_msgs) = 1

\* The reset of the record at position i of the fetch is still waiting for
\* the database's answer.
ResetPending(i) == pc = "await_store" /\ i = Len(disp)

\* C16: a JSON-RPC error (of dataRequestReport or of getBlock) stays with
\* its record: the record gets no Report; it is either reset, by one write,
\* or left in the database as fetched; and once any reset is acknowledged the
\* scan goes on to the next record or to its Reporter send, with the Reports
\* accumulated before the error still in the accumulator.
RpcErrorIsRecordScoped ==
    \A i \in DOMAIN disp :
        disp[i].outcome \in {"report_rpc_error", "block_rpc_error"} =>
            /\ ReportsFor(disp[i].dr_id) = 0
            /\ ResetsFor(disp[i].dr_id) <= 1
            /\ ResetsFor(disp[i].dr_id) = 0 => db[disp[i].dr_id] = AsFetched(i)
            /\ (ResetsFor(disp[i].dr_id) = 1 /\ ~ResetPending(i)) =>
                  db[disp[i].dr_id] = reset_message(fetched[i]).dr_info
            /\ ~ResetPending(i) => ContinuedAfter(i)
            /\ \A j \in 1 .. (i - 1) :
                  disp[j].outcome = "tally" => ReportsFor(disp[j].dr_id) = 1

\* C16 witness: the first record errored, the second was reported and the
\* third was called for, all in one scan.
ErrorThenReportThenCall ==
    /\ Len(disp) = 2
    /\ disp[1].outcome = "report_rpc_error"
    /\ disp[2].outcome = "tally"
    /\ ReportsFor(disp[2].dr_id) = 1
    /\ Len(fetched) = 3
    /\ pc = "await_report"
    /\ calls[Len(calls)].dr_id = fetched[3].dr_id

ReportCallIdx == { c \in DOMAIN calls : calls[c].method = "dataRequestReport" }
FetchPos(id) == CHOOSE i \in DOMAIN fetched : fetched[i].dr_id = id

\* C17: the calls of a scan are strictly sequential. The number of
\* dataRequestReport calls sent is the number of records whose disposition is
\* decided, plus one while a call of the record at hand is outstanding, and
\* not plus one while its reset awaits the database; the records called for
\* are a prefix of the fetch, in fetch order; and a getBlock call directly
\* follows the dataRequestReport call of the same record.
CallsAreSequential ==
    LET n == Cardinality(ReportCallIdx)
    IN  /\ n = Len(disp) + (IF pc \in {"await_report", "await_block"} THEN 1 ELSE 0)
        /\ n <= Len(fetched)
        /\ { calls[c].dr_id : c \in ReportCallIdx } = FetchedIds(1, n)
        /\ \A c1, c2 \in ReportCallIdx :
              c1 < c2 => FetchPos(calls[c1].dr_id) < FetchPos(calls[c2].dr_id)
        /\ \A c \in DOMAIN calls \ ReportCallIdx :
              /\ c > 1
              /\ (c - 1) \in ReportCallIdx
              /\ calls[c - 1].dr_id = calls[c].dr_id
        /\ pc = "await_report" => calls[Len(calls)].method = "dataRequestReport"
        /\ pc = "await_block" => calls[Len(calls)].method = "getBlock"

\* C17 witness: with two records decided, the getBlock call of the third is
\* the one call outstanding.
ThirdRecordAwaitsBlock ==
    /\ Len(fetched) = 3
    /\ Len(disp) = 2
    /\ pc = "await_block"
    /\ calls[Len(calls)].dr_id = fetched[3].dr_id
    /\ Cardinality(ReportCallIdx) = 3

\* C18: a JSON-RPC error on getBlock, for a record whose tally is already
\* known, gives the record neither a Report nor a reset, whatever the
\* threshold and the record's age: the record stays in the database as
\* fetched and the scan goes on.
BlockRpcErrorNeverResets ==
    \A i \in DOMAIN disp :
        disp[i].outcome = "block_rpc_error" =>
            /\ GetBlockCallsFor(disp[i].dr_id) # {}
            /\ ReportsFor(disp[i].dr_id) = 0
            /\ ResetsFor(disp[i].dr_id) = 0
            /\ db[disp[i].dr_id] = AsFetched(i)
            /\ ContinuedAfter(i)

\* C18 witness: getBlock errored for a record older than the configured
\* threshold, and the scan ended with no write at all.
OldRecordBlockErrorNoReset ==
    /\ IsSome(dr_tx_unresolved_timeout_ms)
    /\ pc = "await_reporter"
    /\ writes = << >>
    /\ \E i \in DOMAIN disp :
          /\ disp[i].outcome = "block_rpc_error"
          /\ AgeMs(i) > Unwrap(dr_tx_unresolved_timeout_ms)
          /\ unresolved_too_long(Unwrap(dr_tx_unresolved_timeout_ms), current_timestamp,
                                 fetched[i].dr_tx_creation_timestamp)

\* The reset decision of every errored record, in whole seconds against the
\* time the scan sampled.
ResetDecisionInWholeSeconds ==
    \A i \in DOMAIN disp :
        disp[i].outcome = "report_rpc_error" =>
            (ResetsFor(disp[i].dr_id) = 1 <=>
                /\ IsSome(dr_tx_unresolved_timeout_ms)
                /\ (current_timestamp - fetched[i].dr_tx_creation_timestamp)
                      > (Unwrap(dr_tx_unresolved_timeout_ms) \div 1000))

\* current_timestamp changes only when the database answers the fetch, to
\* the clock of that moment, and when the next scan is spawned.
SampledOnceAtFetch ==
    current_timestamp' # current_timestamp =>
        \/ pc = "await_pending" /\ pc' # "await_pending" /\ current_timestamp' = now
        \/ pc' = "await_pending" /\ scan' = scan + 1

\* C19: the time of the reset decision is sampled once per scan, when the
\* fetch is answered, and a record whose dataRequestReport call errored is
\* reset iff (scan time - creation time) > floor(timeout_ms / 1000), both
\* times in whole seconds.
ResetUsesScanTimeInWholeSeconds ==
    [] ResetDecisionInWholeSeconds /\ [][SampledOnceAtFetch]_vars

\* C19 witness: under a threshold of 999 ms, which truncates to 0 s, and
\* with the clock one second past the scan's sample, a record created at the
\* sampled second errored and was not reset while an older one was.
SubSecondThresholdActsAsZero ==
    /\ dr_tx_unresolved_timeout_ms = Some(999)
    /\ now = current_timestamp + 1
    /\ pc = "await_reporter"
    /\ \E i, j \in DOMAIN disp :
          /\ disp[i].outcome = "report_rpc_error"
          /\ fetched[i].dr_tx_creation_timestamp = current_timestamp
          /\ ResetsFor(disp[i].dr_id) = 0
          /\ disp[j].outcome = "report_rpc_error"
          /\ fetched[j].dr_tx_creation_timestamp = current_timestamp - 1
          /\ ResetsFor(disp[j].dr_id) = 1

TallyIdx == { i \in DOMAIN disp : disp[i].outcome = "tally" }

\* C20: the accumulator holds exactly the Reports of the running scan: one
\* for each record of this scan that got a tally and its block, none for any
\* other record and none from an earlier scan, in the order of the fetch;
\* and the batch the Reporter received is that accumulator.
BatchHoldsThisScansReports ==
    /\ Len(dr_reporter_msgs) = Cardinality(TallyIdx)
    /\ \A k \in DOMAIN dr_reporter_msgs :
          \E i \in TallyIdx :
             /\ dr_reporter_msgs[k].dr_id = fetched[i].dr_id
             /\ dr_reporter_msgs[k].dr_tx_hash = fetched[i].dr_tx_hash
             /\ dr_reporter_msgs[k].result = Unwrap(disp[i].result)
    /\ \A k1, k2 \in DOMAIN dr_reporter_msgs :
          k1 < k2 => FetchPos(dr_reporter_msgs[k1].dr_id)
                       < FetchPos(dr_reporter_msgs[k2].dr_id)
    /\ \A b \in DOMAIN reporter_inbox :
          /\ reporter_inbox[b].scan = scan
          /\ reporter_inbox[b].reports = dr_reporter_msgs
    /\ pc = "await_report" /\ disp = << >> => dr_reporter_msgs = << >>

\* C20 witness: the second scan sent a batch of two Reports, for the first
\* and the third of the three records it fetched.
SecondBatchOfTwo ==
    /\ scan = 2
    /\ pc = "await_reporter"
    /\ Len(fetched) = 3
    /\ Len(reporter_inbox) = 1
    /\ Len(reporter_inbox[1].reports) = 2
    /\ reporter_inbox[1].reports[1].dr_id = fetched[1].dr_id
    /\ reporter_inbox[1].reports[2].dr_id = fetched[3].dr_id

\* The status code 256 above `c`, wrapped into u16.
CongruentCode(c) == (c + 256) % 65536

\* C21: the payload of an intercepted HttpStatus error is one U8 argument
\* whose value is the status code modulo 256: it lies in 0..255, and the
\* status code 256 above the intercepted one is intercepted to the same
\* arguments.
HttpStatusPayloadIsCodeMod256 ==
    (IsSome(icpt_out) /\ Unwrap(icpt_in).tag = "Err"
        /\ Unwrap(icpt_in).val.kind = "HttpStatus") =>
        LET code == Unwrap(Unwrap(icpt_in).val.status_code)
            out == Unwrap(icpt_out)
        IN  /\ out.tag = "Err"
            /\ out.val.kind = "HTTPError"
            /\ Len(out.val.arguments) = 1
            /\ out.val.arguments[1].type = "U8"
            /\ out.val.arguments[1].value \in 0 .. 255
            /\ (code - out.val.arguments[1].value) % 256 = 0
            /\ intercept(Err(RadError("HttpStatus", Some(CongruentCode(code)),
                                      None))).val.arguments
                  = out.val.arguments

\* C21 witness: status code 404 was intercepted to the payload 148.
Status404Gives148 ==
    /\ IsSome(icpt_out)
    /\ Unwrap(icpt_in).tag = "Err"
    /\ Unwrap(icpt_in).val.kind = "HttpStatus"
    /\ Unwrap(icpt_in).val.status_code = Some(404)
    /\ Unwrap(icpt_out).val.arguments = << CborU8(148) >>

====
